---- MODULE Spec2Model ----
(***************************************************************************)
(* Sudoku solver with a Tkinter front end (src/sudoko.py).                 *)
(*                                                                         *)
(* The module models the 9x9 grid, the possibility state (rows_possible,   *)
(* cols_possible, boxes_possible), the recursion of solve_sudoku.backtrack *)
(* as an explicit call stack, the validity check, and the button handlers  *)
(* that drive them.  The iteration order of `for num in candidates` is a   *)
(* nondeterministic choice among the candidates not yet iterated.          *)
(***************************************************************************)
EXTENDS Integers, Sequences, FiniteSets, TLC

VARIABLES
    entries,         \* text of the 81 Entry widgets, entries[i][j]
    btn,             \* text of solve_btn; the text determines its command
    heading,         \* TRUE while heading_label is shown
    msg,             \* title/text of the messagebox raised by the running handler
    pc,              \* where the program is
    grid,            \* the handler's local 9x9 list of lists, grid[row][col]
    grid0,           \* grid as solve_sudoku received it (history variable)
    valid,           \* what is_valid_initial_sudoku(grid) returned in this handler run
    rows_possible,   \* closure variables of solve_sudoku
    cols_possible,
    boxes_possible,
    stack,           \* activation records of backtrack(), innermost last
    ret,             \* value returned by the backtrack() call that last returned
    probe            \* SpecPlace only: the (r, c, v) and the state before the place

vars == <<entries, btn, heading, msg, pc, grid, grid0, valid,
          rows_possible, cols_possible, boxes_possible, stack, ret, probe>>

gui == <<entries, btn, heading, msg>>
poss == <<rows_possible, cols_possible, boxes_possible>>

----------------------------------------------------------------------------
(* Program constants *)

\* range(9): rows, columns, boxes
N == 9
\* range(3): side of a box; row // 3, col // 3
B == 3

Idx == 0 .. (N - 1)
Sub == 0 .. (B - 1)
\* set(range(1, 10))
all_numbers == 1 .. N

Cells == Idx \X Idx

----------------------------------------------------------------------------
(* Bounds of the model *)

\* number of entry widgets whose text ranges over EntryStrings
NumVar == 3
\* SpecSolve: number of cells whose value ranges over 0..9
NumSolveVar == 2
\* SpecPlace: the sets of the probed possibility state are subsets of 1..PlaceDigits
PlaceDigits == 3


\* A solved grid from which the puzzles of the model are cut.
Base ==
    << <<5,3,4,6,7,8,9,1,2>>,
       <<6,7,2,1,9,5,3,4,8>>,
       <<1,9,8,3,4,2,5,6,7>>,
       <<8,5,9,7,6,1,4,2,3>>,
       <<4,2,6,8,5,3,7,9,1>>,
       <<7,1,3,9,2,4,8,5,6>>,
       <<9,6,1,5,3,7,2,8,4>>,
       <<2,8,7,4,1,9,6,3,5>>,
       <<3,4,5,2,8,6,1,7,9>> >>

\* Cells every puzzle of the model leaves empty.
BlankCells ==
    { <<1,5>>, <<1,8>>, <<2,5>>, <<2,8>>, <<4,2>>, <<4,5>>, <<4,8>>, <<5,3>>,
      <<5,5>>, <<7,2>>, <<7,3>>, <<7,6>>, <<8,5>>, <<8,6>>, <<8,8>> }

\* Cells the user edits freely; the first NumVar of them vary, the others are empty.
VarSeq == << <<1,6>>, <<7,5>>, <<4,6>>, <<2,6>> >>

VarCells == { VarSeq[k] : k \in 1 .. NumVar }

\* Texts the user types into a varying cell.
EntryStrings == {"", "0", "1", "2", "3", "4", "5", "6", "7", "8", "9", "x"}

\* SpecPlace: the cells probed, one in every row, column and box.
PlaceCells == { <<i, (B * i + (i \div B)) % N>> : i \in Idx }

----------------------------------------------------------------------------
(* Candidate tracker *)

box_index(row, col) == (row \div B) * B + (col \div B)

\* the nine cells of box b, in the order product(range(3), repeat=2) visits them
BoxCell(b, k) == << (b \div B) * B + (k \div B), (b % B) * B + (k % B) >>

\* as get_possible_numbers, the digits of a box never collected
get_possible_numbers_NoBoxDigits(g) ==
    [ rows  |-> [r \in Idx |-> all_numbers \ { g[r][j] : j \in Idx }],
      cols  |-> [j \in Idx |-> all_numbers \ { g[i][j] : i \in Idx }],
      boxes |-> [b \in Idx |-> all_numbers] ]


get_possible_numbers(g) ==
    [ rows  |-> [r \in Idx |-> all_numbers \ { g[r][j] : j \in Idx }],
      cols  |-> [j \in Idx |-> all_numbers \ { g[i][j] : i \in Idx }],
      boxes |-> [b \in Idx |-> all_numbers \
                    { g[(b \div B) * B + i][(b % B) * B + j] : i \in Sub, j \in Sub }] ]

PossState == [rows |-> rows_possible, cols |-> cols_possible, boxes |-> boxes_possible]

Candidates(st, row, col) ==
    st.rows[row] \cap st.cols[col] \cap st.boxes[box_index(row, col)]

\* as Place, the column set left alone
Place_NoCol(st, row, col, num) ==
    [st |-> [st EXCEPT !.rows[row] = @ \ {num},
                       !.boxes[box_index(row, col)] = @ \ {num}],
     raised |-> num \notin st.rows[row] \/ num \notin st.boxes[box_index(row, col)]]

\* set.remove(num) raises KeyError when num is absent; the statements before
\* the raise have taken effect.
Place(st, row, col, num) ==
    LET b  == box_index(row, col)
        s1 == [st EXCEPT !.rows[row] = @ \ {num}]
        s2 == [s1 EXCEPT !.cols[col] = @ \ {num}]
        s3 == [s2 EXCEPT !.boxes[b] = @ \ {num}]
    IN  IF num \notin st.rows[row] THEN [st |-> st, raised |-> TRUE]
        ELSE IF num \notin s1.cols[col] THEN [st |-> s1, raised |-> TRUE]
        ELSE IF num \notin s2.boxes[b] THEN [st |-> s2, raised |-> TRUE]
        ELSE [st |-> s3, raised |-> FALSE]

\* as Unplace, one of the three sets not restored
Unplace_NoRow(st, row, col, num) ==
    [st EXCEPT !.cols[col] = @ \cup {num},
               !.boxes[box_index(row, col)] = @ \cup {num}]

Unplace_NoCol(st, row, col, num) ==
    [st EXCEPT !.rows[row] = @ \cup {num},
               !.boxes[box_index(row, col)] = @ \cup {num}]

Unplace_NoBox(st, row, col, num) ==
    [st EXCEPT !.rows[row] = @ \cup {num},
               !.cols[col] = @ \cup {num}]

Unplace(st, row, col, num) ==
    [st EXCEPT !.rows[row] = @ \cup {num},
               !.cols[col] = @ \cup {num},
               !.boxes[box_index(row, col)] = @ \cup {num}]

----------------------------------------------------------------------------
(* Validation *)

RowSeq(g, i) == [k \in 1 .. N |-> g[i][k - 1]]
ColSeq(g, j) == [k \in 1 .. N |-> g[k - 1][j]]
BoxSeq(g, b) == [k \in 1 .. N |-> g[BoxCell(b, k - 1)[1]][BoxCell(b, k - 1)[2]]]

\* as NonZero, zeros kept in the lists
NonZero_All(n) == TRUE

NonZero(n) == n # 0

Range(q) == { q[k] : k \in DOMAIN q }

\* len(nums) != len(set(nums))
HasDuplicates(nums) == Len(nums) # Cardinality(Range(nums))

\* as is_valid_initial_sudoku, the columns not checked
is_valid_initial_sudoku_NoCols(g) ==
    /\ \A i \in Idx : ~HasDuplicates(SelectSeq(RowSeq(g, i), NonZero))
    /\ \A b \in Idx : ~HasDuplicates(SelectSeq(BoxSeq(g, b), NonZero))

is_valid_initial_sudoku(g) ==
    /\ \A i \in Idx : ~HasDuplicates(SelectSeq(RowSeq(g, i), NonZero))
    /\ \A j \in Idx : ~HasDuplicates(SelectSeq(ColSeq(g, j), NonZero))
    /\ \A b \in Idx : ~HasDuplicates(SelectSeq(BoxSeq(g, b), NonZero))

----------------------------------------------------------------------------
(* Entry widgets *)

DigitStrings == <<"0", "1", "2", "3", "4", "5", "6", "7", "8", "9">>

\* str(n) for the values a grid holds
str(n) == DigitStrings[n + 1]

\* int(val): the texts of the model that int() accepts, and their values
IsInt(val) == \E n \in 0 .. 9 : str(n) = val
int(val) == CHOOSE n \in 0 .. 9 : str(n) = val

\* one cell of get_grid_from_entries: "" is 0, a text int() rejects or a number
\* outside 1..9 makes the function show the error and return None
CellOk(val) == val = "" \/ (IsInt(val) /\ 1 <= int(val) /\ int(val) <= 9)
CellValue(val) == IF val = "" THEN 0 ELSE int(val)

EntriesOk(e) == { cell \in Cells : ~CellOk(e[cell[1]][cell[2]]) } = {}
get_grid_from_entries(e) == [i \in Idx |-> [j \in Idx |-> CellValue(e[i][j])]]

fill_grid_to_entries(g) == [i \in Idx |-> [j \in Idx |-> str(g[i][j])]]

\* a Python bool as the model stores it
BoolStr(b) == IF b THEN "True" ELSE "False"

BlankEntries == [i \in Idx |-> [j \in Idx |-> ""]]
EmptyGrid == [i \in Idx |-> [j \in Idx |-> 0]]

\* the givens of the model's puzzles, typed in with every varying cell empty
PuzzleEntries ==
    [i \in Idx |-> [j \in Idx |->
        IF <<i, j>> \in BlankCells \/ (\E k \in DOMAIN VarSeq : VarSeq[k] = <<i, j>>)
        THEN "" ELSE str(Base[i + 1][j + 1])]]

\* the entry texts the model clicks "Solve Sudoku" on
InInputs(e) ==
    /\ { cell \in VarCells : e[cell[1]][cell[2]] \notin EntryStrings } = {}
    /\ { cell \in Cells \ VarCells :
            e[cell[1]][cell[2]] # PuzzleEntries[cell[1]][cell[2]] } = {}

NoProbe == [r |-> 0, c |-> 0, v |-> 0, phase |-> "off", st |-> get_possible_numbers(EmptyGrid)]

----------------------------------------------------------------------------
(* Backtracking search: solve_sudoku and its inner backtrack() *)

\* position of a cell in product(range(9), repeat=2)
ScanIndex(cell) == cell[1] * N + cell[2]

EmptyCells(g) == { cell \in Cells : g[cell[1]][cell[2]] = 0 }

\* the cell at which the scan of backtrack() first finds grid[row][col] == 0
FirstEmpty(g) ==
    CHOOSE cell \in EmptyCells(g) :
        \A other \in EmptyCells(g) : ScanIndex(cell) <= ScanIndex(other)

\* as Advance, the iterator yielding from the whole set again
Advance_Stuck(rest, num) == rest

\* the iterator of `for num in candidates` after it has yielded num
Advance(rest, num) == rest \ {num}

\* as ClearCell, the cell left as placed
ClearCell_Keep(g, row, col) == g

\* as SetCell, row and column exchanged
SetCell_Transposed(g, row, col, num) == [g EXCEPT ![col][row] = num]

\* grid[row][col] = num
SetCell(g, row, col, num) == [g EXCEPT ![row][col] = num]

\* grid[row][col] = 0 on the way back
ClearCell(g, row, col) == [g EXCEPT ![row][col] = 0]

\* a fresh activation of backtrack(), about to scan
NewFrame ==
    [pc |-> "scan", row |-> 0, col |-> 0, candidates |-> {}, rest |-> {},
     tried |-> {}, num |-> 0]

Top == stack[Len(stack)]
Pop == SubSeq(stack, 1, Len(stack) - 1)
SetTop(f) == [stack EXCEPT ![Len(stack)] = f]

Running == pc = "solving" /\ stack # <<>>

\* solve_sudoku(grid) is entered: possibilities are computed, backtrack() is called
SolveCall ==
    /\ pc = "call"
    /\ pc' = "solving"
    /\ grid0' = grid
    /\ rows_possible' = get_possible_numbers(grid).rows
    /\ cols_possible' = get_possible_numbers(grid).cols
    /\ boxes_possible' = get_possible_numbers(grid).boxes
    /\ stack' = <<NewFrame>>
    /\ ret' = "none"
    /\ UNCHANGED <<gui, grid, valid, probe>>

\* the scan finds no empty cell: return True
BacktrackFilled ==
    /\ Running /\ Top.pc = "scan"
    /\ EmptyCells(grid) = {}
    /\ stack' = Pop
    /\ ret' = "True"
    /\ UNCHANGED <<gui, pc, grid, grid0, valid, poss, probe>>

\* the first empty cell has no candidates: return False
BacktrackDeadEnd ==
    /\ Running /\ Top.pc = "scan"
    /\ EmptyCells(grid) # {}
    /\ LET cell == FirstEmpty(grid)
       IN  Candidates(PossState, cell[1], cell[2]) = {}
    /\ stack' = Pop
    /\ ret' = "False"
    /\ UNCHANGED <<gui, pc, grid, grid0, valid, poss, probe>>

\* the first empty cell has candidates: the for loop over them starts
BacktrackFound ==
    /\ Running /\ Top.pc = "scan"
    /\ EmptyCells(grid) # {}
    /\ LET cell  == FirstEmpty(grid)
           cands == Candidates(PossState, cell[1], cell[2])
       IN  /\ cands # {}
           /\ stack' = SetTop([pc |-> "loop", row |-> cell[1], col |-> cell[2],
                               candidates |-> cands, rest |-> cands,
                               tried |-> {}, num |-> 0])
    /\ UNCHANGED <<gui, pc, grid, grid0, valid, poss, ret, probe>>

\* the loop yields a candidate: it is placed and backtrack() is called
TryCandidate ==
    /\ Running /\ Top.pc = "loop"
    /\ \E num \in Top.rest :
        LET f == Top
            p == Place(PossState, f.row, f.col, num)
        IN  /\ grid' = SetCell(grid, f.row, f.col, num)
            /\ rows_possible' = p.st.rows
            /\ cols_possible' = p.st.cols
            /\ boxes_possible' = p.st.boxes
            /\ IF p.raised
               THEN /\ pc' = "KeyError"
                    /\ stack' = SetTop([f EXCEPT !.num = num])
               ELSE /\ pc' = pc
                    /\ stack' = Append(SetTop([f EXCEPT !.pc = "called",
                                                        !.rest = Advance(f.rest, num),
                                                        !.tried = @ \cup {num},
                                                        !.num = num]),
                                       NewFrame)
    /\ UNCHANGED <<gui, grid0, valid, ret, probe>>

\* the loop is exhausted: return False
CandidatesExhausted ==
    /\ Running /\ Top.pc = "loop"
    /\ Top.rest = {}
    /\ stack' = Pop
    /\ ret' = "False"
    /\ UNCHANGED <<gui, pc, grid, grid0, valid, poss, probe>>

\* the inner backtrack() returned True: return True
ReturnedTrue ==
    /\ Running /\ Top.pc = "called"
    /\ ret = "True"
    /\ stack' = Pop
    /\ UNCHANGED <<gui, pc, grid, grid0, valid, poss, ret, probe>>

\* the inner backtrack() returned False: the placement is undone
ReturnedFalse ==
    /\ Running /\ Top.pc = "called"
    /\ ret = "False"
    /\ LET f == Top
           u == Unplace(PossState, f.row, f.col, f.num)
       IN  /\ grid' = ClearCell(grid, f.row, f.col)
           /\ rows_possible' = u.rows
           /\ cols_possible' = u.cols
           /\ boxes_possible' = u.boxes
           /\ stack' = SetTop([f EXCEPT !.pc = "loop", !.num = 0])
    /\ ret' = "none"
    /\ UNCHANGED <<gui, pc, grid0, valid, probe>>

\* the outermost backtrack() has returned: solve_sudoku returns its value
SolveReturn ==
    /\ pc = "solving" /\ stack = <<>> /\ ret # "none"
    /\ pc' = "returned"
    /\ UNCHANGED <<gui, grid, grid0, valid, poss, stack, ret, probe>>

SolveNext ==
    \/ SolveCall
    \/ BacktrackFilled
    \/ BacktrackDeadEnd
    \/ BacktrackFound
    \/ TryCandidate
    \/ CandidatesExhausted
    \/ ReturnedTrue
    \/ ReturnedFalse
    \/ SolveReturn

----------------------------------------------------------------------------
(* Button handlers and the user *)

\* what a handler run leaves behind is dropped when the next event arrives
ForgetLocals ==
    /\ grid' = EmptyGrid
    /\ grid0' = EmptyGrid
    /\ valid' = "none"
    /\ rows_possible' = NoProbe.st.rows
    /\ cols_possible' = NoProbe.st.cols
    /\ boxes_possible' = NoProbe.st.boxes
    /\ ret' = "none"

\* the user types the givens of a puzzle into the empty form
LoadPuzzle ==
    /\ pc = "idle" /\ btn = "Solve Sudoku"
    /\ entries = BlankEntries
    /\ entries' = PuzzleEntries
    /\ msg' = ""
    /\ ForgetLocals
    /\ UNCHANGED <<btn, heading, pc, stack, probe>>

\* the user replaces the text of one varying cell
TypeCell ==
    /\ pc = "idle" /\ btn = "Solve Sudoku"
    /\ InInputs(entries)
    /\ \E cell \in VarCells, val \in EntryStrings :
        /\ val # entries[cell[1]][cell[2]]
        /\ entries' = [entries EXCEPT ![cell[1]][cell[2]] = val]
    /\ msg' = ""
    /\ ForgetLocals
    /\ UNCHANGED <<btn, heading, pc, stack, probe>>

\* solve_button_click: get_grid_from_entries returns None
ClickInvalidInput ==
    /\ pc = "idle" /\ btn = "Solve Sudoku"
    /\ InInputs(entries)
    /\ ~EntriesOk(entries)
    /\ msg' = "Invalid Input"
    /\ ForgetLocals
    /\ UNCHANGED <<entries, btn, heading, pc, stack, probe>>

\* solve_button_click: the grid fails is_valid_initial_sudoku
ClickIncorrect ==
    /\ pc = "idle" /\ btn = "Solve Sudoku"
    /\ InInputs(entries)
    /\ EntriesOk(entries)
    /\ BoolStr(is_valid_initial_sudoku(get_grid_from_entries(entries))) = "False"
    /\ msg' = "Sudoku is incorrect"
    /\ grid' = get_grid_from_entries(entries)
    /\ valid' = "False"
    /\ ret' = "none"
    /\ UNCHANGED <<entries, btn, heading, pc, grid0, poss, stack, probe>>

\* solve_button_click: the grid passes the check and solve_sudoku is called
ClickSolve ==
    /\ pc = "idle" /\ btn = "Solve Sudoku"
    /\ InInputs(entries)
    /\ EntriesOk(entries)
    /\ BoolStr(is_valid_initial_sudoku(get_grid_from_entries(entries))) = "True"
    /\ msg' = ""
    /\ grid' = get_grid_from_entries(entries)
    /\ valid' = "True"
    /\ ret' = "none"
    /\ pc' = "call"
    /\ UNCHANGED <<entries, btn, heading, grid0, poss, stack, probe>>

\* solve_sudoku returned True: the solution is shown, the button becomes Reset
HandlerSolved ==
    /\ pc = "returned" /\ ret = "True"
    /\ entries' = fill_grid_to_entries(grid)
    /\ heading' = FALSE
    /\ btn' = "Reset"
    /\ pc' = "idle"
    /\ UNCHANGED <<msg, grid, grid0, valid, poss, stack, ret, probe>>

\* solve_sudoku returned False
HandlerNoSolution ==
    /\ pc = "returned" /\ ret = "False"
    /\ msg' = "Sudoku is incorrect"
    /\ pc' = "idle"
    /\ UNCHANGED <<entries, btn, heading, grid, grid0, valid, poss, stack, ret, probe>>

\* reset_grid
ResetClick ==
    /\ pc = "idle" /\ btn = "Reset"
    /\ entries' = BlankEntries
    /\ heading' = TRUE
    /\ btn' = "Solve Sudoku"
    /\ msg' = ""
    /\ ForgetLocals
    /\ UNCHANGED <<pc, stack, probe>>

Init ==
    /\ entries = BlankEntries
    /\ btn = "Solve Sudoku"
    /\ heading = TRUE
    /\ msg = ""
    /\ pc = "idle"
    /\ grid = EmptyGrid
    /\ grid0 = EmptyGrid
    /\ valid = "none"
    /\ rows_possible = NoProbe.st.rows
    /\ cols_possible = NoProbe.st.cols
    /\ boxes_possible = NoProbe.st.boxes
    /\ stack = <<>>
    /\ ret = "none"
    /\ probe = NoProbe

Next ==
    \/ LoadPuzzle
    \/ TypeCell
    \/ ClickInvalidInput
    \/ ClickIncorrect
    \/ ClickSolve
    \/ SolveCall
    \/ BacktrackFilled
    \/ BacktrackDeadEnd
    \/ BacktrackFound
    \/ TryCandidate
    \/ CandidatesExhausted
    \/ ReturnedTrue
    \/ ReturnedFalse
    \/ SolveReturn
    \/ HandlerSolved
    \/ HandlerNoSolution
    \/ ResetClick

Spec == Init /\ [][Next]_vars

----------------------------------------------------------------------------
(* solve_sudoku called directly on any grid of the model, valid or not *)

\* the grid whose varying cells hold f[1], ..., f[NumSolveVar]
InputGrid(f) ==
    [i \in Idx |-> [j \in Idx |->
        IF \E k \in 1 .. NumSolveVar : VarSeq[k] = <<i, j>>
        THEN f[CHOOSE k \in 1 .. NumSolveVar : VarSeq[k] = <<i, j>>]
        ELSE CellValue(PuzzleEntries[i][j])]]

InitSolve ==
    /\ entries = BlankEntries
    /\ btn = "Solve Sudoku"
    /\ heading = TRUE
    /\ msg = ""
    /\ pc = "call"
    /\ grid \in { InputGrid(f) : f \in [1 .. NumSolveVar -> 0 .. 9] }
    /\ grid0 = EmptyGrid
    /\ valid = "none"
    /\ rows_possible = NoProbe.st.rows
    /\ cols_possible = NoProbe.st.cols
    /\ boxes_possible = NoProbe.st.boxes
    /\ stack = <<>>
    /\ ret = "none"
    /\ probe = NoProbe

\* solve_sudoku is straight-line, single-threaded code: a step that can be taken is taken
SpecSolve == InitSolve /\ [][SolveNext]_vars /\ WF_vars(SolveNext)

----------------------------------------------------------------------------
(* Place and unplace applied to an arbitrary possibility state *)

InitPlace ==
    /\ entries = BlankEntries
    /\ btn = "Solve Sudoku"
    /\ heading = TRUE
    /\ msg = ""
    /\ pc = "probe"
    /\ grid = EmptyGrid
    /\ grid0 = EmptyGrid
    /\ valid = "none"
    /\ stack = <<>>
    /\ ret = "none"
    /\ \E cell \in PlaceCells, v \in 1 .. PlaceDigits :
       \E a \in SUBSET (1 .. PlaceDigits), b \in SUBSET (1 .. PlaceDigits),
          c \in SUBSET (1 .. PlaceDigits) :
            /\ rows_possible = [i \in Idx |-> IF i = cell[1] THEN a ELSE all_numbers]
            /\ cols_possible = [j \in Idx |-> IF j = cell[2] THEN b ELSE all_numbers]
            /\ boxes_possible =
                 [k \in Idx |-> IF k = box_index(cell[1], cell[2]) THEN c ELSE all_numbers]
            /\ probe = [r |-> cell[1], c |-> cell[2], v |-> v, phase |-> "init",
                        st |-> [rows |-> rows_possible, cols |-> cols_possible,
                                boxes |-> boxes_possible]]

\* lines 33-35 applied to the probed state
ProbePlace ==
    /\ pc = "probe" /\ probe.phase = "init"
    /\ LET p == Place(PossState, probe.r, probe.c, probe.v)
       IN  /\ rows_possible' = p.st.rows
           /\ cols_possible' = p.st.cols
           /\ boxes_possible' = p.st.boxes
           /\ probe' = [probe EXCEPT !.phase = IF p.raised THEN "KeyError" ELSE "placed"]
    /\ UNCHANGED <<gui, pc, grid, grid0, valid, stack, ret>>

\* lines 41-43 applied after the place
ProbeUnplace ==
    /\ pc = "probe" /\ probe.phase = "placed"
    /\ LET u == Unplace(PossState, probe.r, probe.c, probe.v)
       IN  /\ rows_possible' = u.rows
           /\ cols_possible' = u.cols
           /\ boxes_possible' = u.boxes
    /\ probe' = [probe EXCEPT !.phase = "unplaced"]
    /\ UNCHANGED <<gui, pc, grid, grid0, valid, stack, ret>>

NextPlace == ProbePlace \/ ProbeUnplace

SpecPlace == InitPlace /\ [][NextPlace]_vars

----------------------------------------------------------------------------
(* What the properties are stated in *)

RowCells(i) == { <<i, j>> : j \in Idx }
ColCells(j) == { <<i, j>> : i \in Idx }
BoxCells(b) == { BoxCell(b, k) : k \in Idx }
Units == { RowCells(i) : i \in Idx } \cup { ColCells(j) : j \in Idx }
            \cup { BoxCells(b) : b \in Idx }

At(g, cell) == g[cell[1]][cell[2]]

\* every row, column and box holds each of 1..9 exactly once
IsSolved(g) ==
    \A u \in Units, d \in all_numbers :
        Cardinality({ cell \in u : At(g, cell) = d }) = 1

\* some row, column or box holds a non-zero digit twice
DuplicateIn(g) ==
    \E u \in Units : \E c1 \in u, c2 \in u :
        c1 # c2 /\ At(g, c1) # 0 /\ At(g, c1) = At(g, c2)

\* digit d at cell breaks no constraint of g
Fits(g, cell, d) ==
    \A u \in Units : cell \in u => \A other \in u : At(g, other) # d

\* every solved grid that agrees with g on the non-zero cells of g
RECURSIVE Completions(_)
Completions(g) ==
    IF EmptyCells(g) = {}
    THEN IF IsSolved(g) THEN {g} ELSE {}
    ELSE LET cell == CHOOSE c \in EmptyCells(g) :
                        \A o \in EmptyCells(g) : ScanIndex(c) >= ScanIndex(o)
         IN  UNION { Completions([g EXCEPT ![cell[1]][cell[2]] = d]) :
                        d \in { x \in all_numbers : Fits(g, cell, x) } }

Returned == pc = "returned"

----------------------------------------------------------------------------
(* C1: when solve_sudoku returns True on a grid that passed                *)
(* is_valid_initial_sudoku, every row, column and box of the grid holds    *)
(* each of 1..9 exactly once, so no cell is 0.                             *)
C1_Validity ==
    (Returned /\ ret = "True" /\ is_valid_initial_sudoku(grid0)) => IsSolved(grid)

C1_Witness ==
    /\ Returned /\ ret = "True" /\ valid = "True"
    /\ Cardinality(EmptyCells(grid0)) >= 16
    /\ EmptyCells(grid) = {}

(* C2: on a grid that passed is_valid_initial_sudoku, solve_sudoku returns *)
(* False only if the grid has no completion.                               *)
C2_Complete ==
    (Returned /\ ret = "False" /\ is_valid_initial_sudoku(grid0))
        => Completions(grid0) = {}

C2_Witness ==
    /\ Returned /\ ret = "False" /\ valid = "True"
    /\ Candidates(get_possible_numbers(grid0), FirstEmpty(grid0)[1],
                  FirstEmpty(grid0)[2]) # {}

(* C3: when solve_sudoku returns False, on a valid grid or not, each of    *)
(* the 81 cells holds the value it held before the call.                   *)
C3_Restored ==
    (Returned /\ ret = "False") => grid = grid0

C3_Witness ==
    /\ Returned /\ ret = "False" /\ grid = grid0
    /\ Cardinality(EmptyCells(grid0)) >= 16
    /\ ~DuplicateIn(grid0)
    /\ Candidates(get_possible_numbers(grid0), FirstEmpty(grid0)[1],
                  FirstEmpty(grid0)[2]) # {}

(* C4: the search writes only to cells that were 0 on entry: during the    *)
(* search and when solve_sudoku returns True, on a valid grid or not,      *)
(* every cell that was non-zero before the call holds its original value.  *)
C4_GivensKept ==
    pc \in {"solving", "returned"} =>
        \A cell \in Cells : At(grid0, cell) # 0 => At(grid, cell) = At(grid0, cell)

C4_Witness ==
    /\ Returned /\ ret = "True"
    /\ EmptyCells(grid) = {}
    /\ Cardinality(EmptyCells(grid0)) >= 16
    /\ \A cell \in Cells \ EmptyCells(grid0) : At(grid, cell) = At(grid0, cell)

(* C5: is_valid_initial_sudoku returns True exactly when no row, column or *)
(* box holds the same non-zero digit twice.                                *)
C5_ValidIffNoDuplicate ==
    /\ (pc = "idle" /\ valid = "False") => DuplicateIn(grid)
    /\ (pc = "call" /\ valid = "True") => ~DuplicateIn(grid)

C5_Witness ==
    /\ pc = "idle" /\ valid = "False"
    /\ \E cell \in Cells : At(grid, cell) = 0
    /\ DuplicateIn(grid)

\* the step is a run of solve_button_click, not an edit by the user
HandlerRan == valid' # "none" \/ pc' # "idle" \/ msg' # ""

(* C6: a click on a grid with a duplicate digit reports the failure and    *)
(* leaves the grid, the entries, the button and the heading as they were,  *)
(* without starting solve_sudoku; solve_sudoku is only started on a grid   *)
(* for which is_valid_initial_sudoku returned True.                        *)
C6_NoSearchOnDuplicate ==
    [][ /\ (pc' = "call" /\ pc # "call")
            => (valid' = "True" /\ ~DuplicateIn(grid'))
        /\ ( /\ pc = "idle" /\ btn = "Solve Sudoku"
             /\ HandlerRan
             /\ EntriesOk(entries)
             /\ DuplicateIn(get_grid_from_entries(entries)) )
            => /\ pc' = "idle"
               /\ msg' = "Sudoku is incorrect"
               /\ valid' = "False"
               /\ grid' = get_grid_from_entries(entries)
               /\ entries' = entries
               /\ btn' = btn /\ heading' = heading
               /\ stack' = <<>> /\ ret' = "none" ]_vars

C6_Witness ==
    /\ pc = "idle" /\ msg = "Sudoku is incorrect" /\ valid = "False"
    /\ DuplicateIn(grid)
    /\ grid = get_grid_from_entries(entries)
    /\ btn = "Solve Sudoku"

ProbeIsCandidate == probe.v \in Candidates(probe.st, probe.r, probe.c)

C8_Lockstep ==
    (pc \in {"solving", "returned"} /\ is_valid_initial_sudoku(grid0)) =>
        /\ PossState = get_possible_numbers(grid)
        /\ \A cell \in Cells :
            IF At(grid, cell) # 0
            THEN /\ At(grid, cell) \notin rows_possible[cell[1]]
                 /\ At(grid, cell) \notin cols_possible[cell[2]]
                 /\ At(grid, cell) \notin boxes_possible[box_index(cell[1], cell[2])]
            ELSE \A d \in all_numbers :
                    d \in Candidates(PossState, cell[1], cell[2]) <=> Fits(grid, cell, d)

C8_Witness ==
    /\ Running /\ valid = "True"
    /\ Len(stack) >= 3
    /\ Top.pc = "loop" /\ Top.tried # {} /\ Top.rest # {}

(* C9: the value solve_sudoku returns is the same for every order in which *)
(* candidates are iterated (it is True exactly when the grid has a         *)
(* completion), and when the grid has exactly one completion the solved    *)
(* grid is that completion for every order.                                *)
C9_OrderIndependent ==
    (Returned /\ is_valid_initial_sudoku(grid0)) =>
        /\ ret = BoolStr(Completions(grid0) # {})
        /\ Cardinality(Completions(grid0)) = 1 => grid \in Completions(grid0)

C9_Witness ==
    /\ Returned /\ ret = "True" /\ valid = "True"
    /\ Cardinality(Completions(grid0)) = 1
    /\ \E cell \in EmptyCells(grid0) :
          Cardinality(Candidates(get_possible_numbers(grid0), cell[1], cell[2])) >= 2

\* every activation past its scan works on the first empty cell in row-major order
WorksOnFirstEmpty ==
    \A k \in DOMAIN stack :
        stack[k].pc # "scan" =>
            /\ At(grid0, <<stack[k].row, stack[k].col>>) = 0
            /\ \A cell \in Cells :
                  ScanIndex(cell) < ScanIndex(<<stack[k].row, stack[k].col>>)
                      => At(grid, cell) # 0
            /\ (stack[k].pc = "loop" => At(grid, <<stack[k].row, stack[k].col>>) = 0)
            /\ stack[k].tried \cup stack[k].rest = stack[k].candidates

DepthBounded == Len(stack) <= Cardinality(EmptyCells(grid0)) + 1

\* a step that calls backtrack() places a candidate its activation has not tried
TriesOnce ==
    (stack # <<>> /\ Len(stack') = Len(stack) + 1) =>
        /\ stack'[Len(stack)].num \in stack[Len(stack)].candidates
        /\ stack'[Len(stack)].num \notin stack[Len(stack)].tried

(* C10: solve_sudoku terminates on every grid with values in 0..9: it      *)
(* returns True or False; each backtrack() works only on the first empty   *)
(* cell in row-major order and tries each candidate at most once; and the  *)
(* nesting of backtrack() never exceeds the number of initially empty      *)
(* cells plus one.                                                         *)
C10_Terminates ==
    /\ <>(Returned /\ ret \in {"True", "False"})
    /\ [](pc = "solving" => (WorksOnFirstEmpty /\ DepthBounded))
    /\ [][TriesOnce]_vars

C10_Witness ==
    /\ Returned /\ ret = "False"
    /\ DuplicateIn(grid0)
    /\ Cardinality(EmptyCells(grid0)) >= 16

====
